---- MODULE Spec2Model ----
(***************************************************************************)
(* Model of selfservice/strategy/oidc/provider_linkedin.go: the LinkedIn   *)
(* provider adapter (OAuth2, fetch, Profile, ProfileLocale, Claims).       *)
(*                                                                         *)
(* A call of Claims is a process with a program counter:                   *)
(*   start -> do (one GET per step, retried by the client) -> check        *)
(*         -> map -> done                                                  *)
(* Several calls on the same provider interleave at these points.          *)
(***************************************************************************)
EXTENDS Integers, Sequences, FiniteSets, TLC

(* ---------------------------------------------------------------------- *)
(* Bounds                                                                  *)
(* ---------------------------------------------------------------------- *)
\* number of concurrent Claims calls in the concurrent specification
NCalls == 2

\* retries the resilient client makes after the first attempt
RetryMax == 2

Calls == 1..NCalls

(* ---------------------------------------------------------------------- *)
(* Constants of the source                                                 *)
(* ---------------------------------------------------------------------- *)
ProfileUrl == "https://api.linkedin.com/v2/userinfo"
IntrospectionURL == "https://www.linkedin.com/oauth/v2/introspectToken"
IssuerUrl == "https://login.linkedin.com/"
InternalServerErrorMessage == "An internal server error occurred, please contact the system administrator"

(* ---------------------------------------------------------------------- *)
(* JSON values of the upstream payload.  A value is <<type, text>>.        *)
(* ---------------------------------------------------------------------- *)
Absent == <<"absent", "">>
JStr(s) == <<"str", s>>
JBool(s) == <<"bool", s>>
JNum(s) == <<"num", s>>

\* wire encodings of email_verified an upstream may send
EmailVerifiedEncodings ==
    { Absent, JStr("true"), JStr("false"), JBool("true"), JBool("false"),
      JNum("1"), JNum("0") }

\* the locale member: absent, or an object with (or without) a language
NoLocale == [present |-> FALSE, language |-> Absent]
LocaleEncodings ==
    { NoLocale,
      [present |-> TRUE, language |-> JStr("en-US")],
      [present |-> TRUE, language |-> Absent] }

\* a response body: either text that is not JSON, or a JSON object
GarbageBody ==
    [kind |-> "garbage", sub |-> Absent, email |-> Absent,
     email_verified |-> Absent, given_name |-> Absent, family_name |-> Absent,
     picture |-> Absent, locale |-> NoLocale]

JsonBodies ==
    [kind : {"json"},
     sub : {Absent, JStr("abc123")},
     email : {Absent, JStr("a@example.com")},
     email_verified : EmailVerifiedEncodings,
     given_name : {JStr("Ann")},
     family_name : {JStr("Lee")},
     picture : {JStr("http://img")},
     locale : LocaleEncodings]

Bodies == JsonBodies \cup {GarbageBody}

\* the body of the concrete scenario of the specification
ScenarioBody ==
    [kind |-> "json", sub |-> JStr("abc123"), email |-> JStr("a@example.com"),
     email_verified |-> JStr("true"), given_name |-> JStr("Ann"),
     family_name |-> JStr("Lee"), picture |-> JStr("http://img"),
     locale |-> [present |-> TRUE, language |-> JStr("en-US")]]

NativeScenarioBody == [ScenarioBody EXCEPT !.email_verified = JBool("true")]

(* ---------------------------------------------------------------------- *)
(* What one GET attempt can yield: an HTTP response or a transport error.  *)
(* ---------------------------------------------------------------------- *)
TransportTexts == {"dial tcp: connection refused", "read: connection reset by peer"}

HttpResponse(status, body) == [k |-> "http", status |-> status, body |-> body, text |-> ""]
TransportFailure(t) == [k |-> "neterr", status |-> 0, body |-> GarbageBody, text |-> t]

Responses ==
    { HttpResponse(200, b) : b \in Bodies }
    \cup { HttpResponse(s, GarbageBody) : s \in {404, 500} }
    \cup { HttpResponse(404, NativeScenarioBody) }
    \cup { TransportFailure(t) : t \in TransportTexts }

\* the repertoire of the upstream in the concurrent specification
ConcResponses ==
    { HttpResponse(200, NativeScenarioBody),
      HttpResponse(200, [NativeScenarioBody EXCEPT !.sub = Absent, !.locale = NoLocale,
                                                   !.email_verified = JBool("false")]),
      HttpResponse(500, GarbageBody) }

(* ---------------------------------------------------------------------- *)
(* Errors.  The text of an error is a sequence of fragments, so that the   *)
(* origin of every fragment stays visible after wrapping and formatting.   *)
(* ---------------------------------------------------------------------- *)
NoErr == [k |-> "nil", msg |-> <<>>, reason |-> <<>>]

\* err.Error(): the text an error prints as
ErrorText(e) == e.msg

\* errors.WithStack(err): same error, same text, with a stack attached
WithStack(e) == e

\* herodot.ErrInternalServerError.WithReasonf("%s", err)
ErrInternalServerErrorWithReasonf(e) ==
    [k |-> "internal", msg |-> <<InternalServerErrorMessage>>, reason |-> ErrorText(e)]

\* the text of the body an upstream sent when it is not JSON
GarbageText == "<html>upstream down</html>"

(* ---------------------------------------------------------------------- *)
(* LinkedInProfile and its JSON decoding                                   *)
(* ---------------------------------------------------------------------- *)
NilLocale == [nil |-> TRUE, Lanuguage |-> ""]

\* var result LinkedInProfile: the zero value
ZeroProfile ==
    [LocalizedLastName |-> "", LocalizedFirstName |-> "", ProfilePicture |-> "",
     EmailAddress |-> "", EmailVerified |-> FALSE, ID |-> "", Locale |-> NilLocale]

\* a Go string field accepts a JSON string; an absent member leaves it alone
StringFieldFits(v) == v[1] \in {"absent", "str"}
DecodeString(v, old) == IF v[1] = "str" THEN v[2] ELSE old

\* a Go bool field accepts only the JSON literals true and false
BoolFieldFits(v) == v[1] \in {"absent", "bool"}
DecodeBool(v, old) == IF v[1] = "bool" THEN v[2] = "true" ELSE old

\* Locale *struct{...} `json:"locale,omitempty"`: allocated only when present
DecodeLocale(l, old) ==
    IF ~l.present THEN old
    ELSE [nil |-> FALSE,
          Lanuguage |-> DecodeString(l.language, IF old.nil THEN "" ELSE old.Lanuguage)]

\* the members of a body whose JSON type the struct field cannot take
Misfits(b) ==
    { f \in {"sub", "email", "given_name", "family_name", "picture"} : ~StringFieldFits(b[f]) }
    \cup (IF BoolFieldFits(b.email_verified) THEN {} ELSE {"email_verified"})
    \cup (IF b.locale.present /\ ~StringFieldFits(b.locale.language) THEN {"locale"} ELSE {})

JsonTypeName(v) == IF v[1] = "num" THEN "number" ELSE IF v[1] = "str" THEN "string" ELSE v[1]

\* the error of json.NewDecoder(res.Body).Decode(result)
DecodeError(b) ==
    IF b.kind = "garbage"
    THEN [k |-> "json.SyntaxError", msg |-> <<"invalid character looking for beginning of value", GarbageText>>,
          reason |-> <<>>]
    ELSE IF Misfits(b) # {}
    THEN [k |-> "json.UnmarshalTypeError",
          msg |-> <<"json: cannot unmarshal into Go struct field LinkedInProfile of type bool",
                    JsonTypeName(b.email_verified)>>,
          reason |-> <<>>]
    ELSE NoErr

\* the destination after Decode: a syntax error leaves it untouched, a type
\* mismatch skips that member and decodes the rest
DecodeInto(b, dst) ==
    IF b.kind = "garbage" THEN dst
    ELSE [LocalizedLastName |-> DecodeString(b.family_name, dst.LocalizedLastName),
          LocalizedFirstName |-> DecodeString(b.given_name, dst.LocalizedFirstName),
          ProfilePicture |-> DecodeString(b.picture, dst.ProfilePicture),
          EmailAddress |-> DecodeString(b.email, dst.EmailAddress),
          EmailVerified |-> DecodeBool(b.email_verified, dst.EmailVerified),
          ID |-> DecodeString(b.sub, dst.ID),
          Locale |-> DecodeLocale(b.locale, dst.Locale)]

(* ---------------------------------------------------------------------- *)
(* Mapping of the profile into the canonical Claims                        *)
(* ---------------------------------------------------------------------- *)
ProfileLocale(profile) ==
    IF profile.Locale.nil THEN "" ELSE profile.Locale.Lanuguage

\* x.ConvertibleBoolean(b): a conversion of a Go bool to the named bool type
ConvertibleBoolean(b) == b

NilClaims ==
    [Subject |-> "", Issuer |-> "", Email |-> "", GivenName |-> "", LastName |-> "",
     Picture |-> "", EmailVerified |-> FALSE, Locale |-> ""]

ClaimsOfDroppingIssuer(profile) ==
    [Subject |-> profile.ID,
     Issuer |-> profile.ID,
     Email |-> profile.EmailAddress,
     GivenName |-> profile.LocalizedFirstName,
     LastName |-> profile.LocalizedLastName,
     Picture |-> profile.ProfilePicture,
     EmailVerified |-> ConvertibleBoolean(profile.EmailVerified),
     Locale |-> ProfileLocale(profile)]

ClaimsOf(profile) ==
    [Subject |-> profile.ID,
     Issuer |-> IssuerUrl,
     Email |-> profile.EmailAddress,
     GivenName |-> profile.LocalizedFirstName,
     LastName |-> profile.LocalizedLastName,
     Picture |-> profile.ProfilePicture,
     EmailVerified |-> ConvertibleBoolean(profile.EmailVerified),
     Locale |-> ProfileLocale(profile)]

(* ---------------------------------------------------------------------- *)
(* OAuth2 settings                                                         *)
(* ---------------------------------------------------------------------- *)
\* the provider as NewProviderLinkedIn builds it: configuration and registry
ProviderLinkedIn ==
    [config |-> [ID |-> "linkedin", ClientID |-> "client-id", ClientSecret |-> "client-secret",
                 Scope |-> <<"openid", "profile", "email">>],
     reg |-> "registry"]

\* values of the redirect base URL of a request context; "" is a missing base
RedirBases == {"", "https://kratos.example"}

\* Configuration.Redir(base): the callback path appended to the base
Redir(cfg, base) == <<base, "/self-service/methods/oidc/callback/", cfg.ID>>

oauth2(l, base) ==
    [ClientID |-> l.config.ClientID,
     ClientSecret |-> l.config.ClientSecret,
     Endpoint |-> "linkedin.Endpoint",
     Scopes |-> l.config.Scope,
     RedirectURL |-> Redir(l.config, base)]

OAuth2(l, base) == [o |-> oauth2(l, base), err |-> NoErr]

AuthCodeURLOptions == <<>>

NoClient == [built |-> FALSE, bearer |-> <<"", 0>>, redirect |-> <<>>]

\* httpx.SetOAuth2: the resilient client, authenticated with the token
SetOAuth2(o, exchange) == [built |-> TRUE, bearer |-> exchange, redirect |-> o.RedirectURL]

(* ---------------------------------------------------------------------- *)
(* The resilient client                                                    *)
(* ---------------------------------------------------------------------- *)
\* whether an attempt that ended this way is tried again
Retryable(r) == r.k = "neterr" \/ r.status >= 500

\* the error of Do once the attempts are used up
GiveUpError(r) ==
    [k |-> "retryablehttp", reason |-> <<>>,
     msg |-> IF r.k = "neterr" THEN <<"GET giving up after attempt(s)", r.text>>
             ELSE <<"GET giving up after attempt(s)">>]

\* retryablehttp.NewRequestWithContext(ctx, GET, url, nil) fails on a url
\* that does not parse
NewRequestError(url) ==
    IF url \in {ProfileUrl, IntrospectionURL} THEN NoErr
    ELSE [k |-> "url.Error", msg |-> <<"parse", url>>, reason |-> <<>>]

\* logUpstreamError: an upstream error for a response that is not a success
logUpstreamError(res) ==
    IF res.status >= 200 /\ res.status <= 299 THEN NoErr
    ELSE [k |-> "internal", msg |-> <<InternalServerErrorMessage>>,
          reason |-> <<"OpenID Connect provider returned a non-200 status code", "linkedin">>]

(* ---------------------------------------------------------------------- *)
(* fetch after client.Do returned a response: status check, then decode.   *)
(* Yields the error fetch returns, the destination, and whether Decode ran *)
(* ---------------------------------------------------------------------- *)
FetchResponseIgnoringDecodeError(res, dst) ==
    IF logUpstreamError(res) # NoErr
    THEN [err |-> logUpstreamError(res), dst |-> dst, decoded |-> 0]
    ELSE [err |-> NoErr, dst |-> DecodeInto(res.body, dst), decoded |-> 1]

FetchResponseDecodingFirst(res, dst) ==
    IF DecodeError(res.body) # NoErr
    THEN [err |-> WithStack(DecodeError(res.body)), dst |-> DecodeInto(res.body, dst), decoded |-> 1]
    ELSE IF logUpstreamError(res) # NoErr
    THEN [err |-> logUpstreamError(res), dst |-> DecodeInto(res.body, dst), decoded |-> 1]
    ELSE [err |-> NoErr, dst |-> DecodeInto(res.body, dst), decoded |-> 1]

FetchResponse(res, dst) ==
    IF logUpstreamError(res) # NoErr
    THEN [err |-> logUpstreamError(res), dst |-> dst, decoded |-> 0]
    ELSE IF DecodeError(res.body) # NoErr
    THEN [err |-> WithStack(DecodeError(res.body)), dst |-> DecodeInto(res.body, dst), decoded |-> 1]
    ELSE [err |-> NoErr, dst |-> DecodeInto(res.body, dst), decoded |-> 1]

(* ---------------------------------------------------------------------- *)
(* Spans                                                                   *)
(* ---------------------------------------------------------------------- *)
NoSpan == [started |-> 0, ended |-> 0, recorded |-> NoErr]
StartSpan == [started |-> 1, ended |-> 0, recorded |-> NoErr]

\* otelx.End(span, &err): record *err on the span when it is not nil, end it
End(span, err) ==
    [started |-> span.started, ended |-> span.ended + 1,
     recorded |-> IF err # NoErr THEN err ELSE span.recorded]

\* what the deferred End reads through &err: a return statement stores its
\* operand in the named result before the deferred calls run
NamedResultMissingShadowed(outer, returned) == outer

NamedResult(outer, returned) == returned

(* ---------------------------------------------------------------------- *)
(* Where Profile keeps the destination of the decode: a variable of the    *)
(* call (var result LinkedInProfile)                                       *)
(* ---------------------------------------------------------------------- *)
ResultSlotShared(c) == 1

ResultSlot(c) == c

(* ---------------------------------------------------------------------- *)
(* What Claims returns after Profile returned                              *)
(* ---------------------------------------------------------------------- *)
ClaimsReturnIgnoringError(err, profile) ==
    [has |-> TRUE, claims |-> ClaimsOf(profile), err |-> NoErr]

ClaimsReturn(err, profile) ==
    IF err # NoErr
    THEN [has |-> FALSE, claims |-> NilClaims, err |-> WithStack(ErrInternalServerErrorWithReasonf(err))]
    ELSE [has |-> TRUE, claims |-> ClaimsOf(profile), err |-> NoErr]

NoResult == [has |-> FALSE, claims |-> NilClaims, err |-> NoErr]
NoResponse == [k |-> "none", status |-> 0, body |-> GarbageBody, text |-> ""]

(* ---------------------------------------------------------------------- *)
(* State                                                                   *)
(* ---------------------------------------------------------------------- *)
VARIABLES
    provider,     \* the ProviderLinkedIn value shared by all calls (config, reg)
    upstream,     \* what the profile endpoint may answer to a GET
    redirBase,    \* per call: the redirect base URL its context carries
    pc,           \* per call: position inside Claims
    client,       \* per call: the authenticated client built by SetOAuth2
    attempts,     \* per call: GET requests issued so far
    res,          \* per call: outcome of the last GET
    seen,         \* per call: outcomes of all its GETs
    slot,         \* the result variables of Profile, by slot
    decodes,      \* per call: times Decode was called on a body
    fetchErr,     \* per call: the error fetch (and Profile) returned
    result,       \* per call: what Claims returned
    spanFetch,    \* per call: the span of fetch
    spanClaims    \* per call: the span of Claims

vars == <<provider, upstream, redirBase, pc, client, attempts, res, seen, slot,
          decodes, fetchErr, result, spanFetch, spanClaims>>

\* the exchanged token a call is given
Token(c) == <<"access-token", c>>

InitCalls(active) ==
    /\ provider = ProviderLinkedIn
    /\ pc = [c \in Calls |-> IF c \in active THEN "start" ELSE "idle"]
    /\ client = [c \in Calls |-> NoClient]
    /\ attempts = [c \in Calls |-> 0]
    /\ res = [c \in Calls |-> NoResponse]
    /\ seen = [c \in Calls |-> {}]
    /\ slot = [c \in Calls |-> ZeroProfile]
    /\ decodes = [c \in Calls |-> 0]
    /\ fetchErr = [c \in Calls |-> NoErr]
    /\ result = [c \in Calls |-> NoResult]
    /\ spanFetch = [c \in Calls |-> NoSpan]
    /\ spanClaims = [c \in Calls |-> NoSpan]

\* one call, against an upstream that may answer anything
Init ==
    /\ InitCalls({1})
    /\ upstream = Responses
    /\ redirBase \in {f \in [Calls -> RedirBases] : \A c \in Calls \ {1} : f[c] = ""}

\* all calls at once on the same provider
InitConc ==
    /\ InitCalls(Calls)
    /\ upstream = ConcResponses
    /\ redirBase \in [Calls -> RedirBases]

(* ---------------------------------------------------------------------- *)
(* Claims, lines 134-143, with Profile and fetch up to the request:        *)
(* span, OAuth2, fail fast, SetOAuth2, var result, span of fetch, request  *)
(* ---------------------------------------------------------------------- *)
ClaimsStart(c) ==
    /\ pc[c] = "start"
    /\ LET r == OAuth2(provider, redirBase[c])
           failed == [has |-> FALSE, claims |-> NilClaims,
                      err |-> WithStack(ErrInternalServerErrorWithReasonf(r.err))]
           reqErr == NewRequestError(ProfileUrl)
       IN IF r.err # NoErr
          THEN /\ result' = [result EXCEPT ![c] = failed]
               /\ spanClaims' = [spanClaims EXCEPT ![c] = End(StartSpan, NamedResult(r.err, failed.err))]
               /\ pc' = [pc EXCEPT ![c] = "done"]
               /\ UNCHANGED <<client, slot, spanFetch, fetchErr>>
          ELSE /\ spanClaims' = [spanClaims EXCEPT ![c] = StartSpan]
               /\ client' = [client EXCEPT ![c] = SetOAuth2(r.o, Token(c))]
               /\ slot' = [slot EXCEPT ![ResultSlot(c)] = ZeroProfile]
               /\ IF reqErr # NoErr
                  THEN /\ fetchErr' = [fetchErr EXCEPT ![c] = WithStack(reqErr)]
                       /\ spanFetch' = [spanFetch EXCEPT ![c] =
                                           End(StartSpan, NamedResult(reqErr, WithStack(reqErr)))]
                       /\ pc' = [pc EXCEPT ![c] = "map"]
                  ELSE /\ spanFetch' = [spanFetch EXCEPT ![c] = StartSpan]
                       /\ pc' = [pc EXCEPT ![c] = "do"]
                       /\ UNCHANGED fetchErr
               /\ UNCHANGED result
    /\ UNCHANGED <<provider, upstream, redirBase, attempts, res, seen, decodes>>

(* ---------------------------------------------------------------------- *)
(* client.Do, lines 100-103: one GET; a retryable outcome is tried again   *)
(* until the attempts are used up, and then Do fails and fetch returns     *)
(* ---------------------------------------------------------------------- *)
DoAttempt(c) ==
    /\ pc[c] = "do"
    /\ \E r \in upstream :
         /\ attempts' = [attempts EXCEPT ![c] = @ + 1]
         /\ res' = [res EXCEPT ![c] = r]
         /\ seen' = [seen EXCEPT ![c] = @ \cup {r}]
         /\ IF ~Retryable(r)
            THEN /\ pc' = [pc EXCEPT ![c] = "check"]
                 /\ UNCHANGED <<fetchErr, spanFetch>>
            ELSE IF attempts[c] + 1 > RetryMax
            THEN /\ fetchErr' = [fetchErr EXCEPT ![c] = WithStack(GiveUpError(r))]
                 /\ spanFetch' = [spanFetch EXCEPT ![c] =
                                     End(@, NamedResult(GiveUpError(r), WithStack(GiveUpError(r))))]
                 /\ pc' = [pc EXCEPT ![c] = "map"]
            ELSE UNCHANGED <<pc, fetchErr, spanFetch>>
    /\ UNCHANGED <<provider, upstream, redirBase, client, slot, decodes, result, spanClaims>>

(* ---------------------------------------------------------------------- *)
(* fetch, lines 105-114: status check, decode into the destination, return *)
(* ---------------------------------------------------------------------- *)
FetchCheck(c) ==
    /\ pc[c] = "check"
    /\ LET f == FetchResponse(res[c], slot[ResultSlot(c)])
       IN /\ slot' = [slot EXCEPT ![ResultSlot(c)] = f.dst]
          /\ decodes' = [decodes EXCEPT ![c] = @ + f.decoded]
          /\ fetchErr' = [fetchErr EXCEPT ![c] = f.err]
          /\ spanFetch' = [spanFetch EXCEPT ![c] = End(@, NamedResult(NoErr, f.err))]
    /\ pc' = [pc EXCEPT ![c] = "map"]
    /\ UNCHANGED <<provider, upstream, redirBase, client, attempts, res, seen, result, spanClaims>>

(* ---------------------------------------------------------------------- *)
(* Profile returns (lines 120-124) and Claims finishes (lines 144-160)     *)
(* ---------------------------------------------------------------------- *)
ClaimsFinish(c) ==
    /\ pc[c] = "map"
    /\ LET ret == ClaimsReturn(WithStack(fetchErr[c]), slot[ResultSlot(c)])
       IN /\ result' = [result EXCEPT ![c] = ret]
          /\ spanClaims' = [spanClaims EXCEPT ![c] = End(@, NamedResult(fetchErr[c], ret.err))]
    /\ pc' = [pc EXCEPT ![c] = "done"]
    /\ UNCHANGED <<provider, upstream, redirBase, client, attempts, res, seen, slot,
                   decodes, fetchErr, spanFetch>>

Next ==
    \E c \in Calls : ClaimsStart(c) \/ DoAttempt(c) \/ FetchCheck(c) \/ ClaimsFinish(c)

Spec == Init /\ [][Next]_vars

SpecConc == InitConc /\ [][Next]_vars

(* ====================================================================== *)
(* Properties                                                              *)
(* ====================================================================== *)
Done(c) == pc[c] = "done"

\* the call got a final 200 answer whose body is a JSON object
Got200Json(c) == res[c].k = "http" /\ res[c].status = 200 /\ res[c].body.kind = "json"

\* the call got a final 200 answer whose body decodes into LinkedInProfile
Got200Decodable(c) ==
    res[c].k = "http" /\ res[c].status = 200 /\ DecodeError(res[c].body) = NoErr

TextOf(v) == IF v[1] = "absent" THEN "" ELSE v[2]

Truthy == {JStr("true"), JBool("true"), JNum("1")}
Falsy == {JStr("false"), JBool("false"), JNum("0")}

\* C1: a 200 profile whose email_verified is "true", true or 1 yields Claims
\* with EmailVerified = TRUE, and "false", false or 0 yields Claims with
\* EmailVerified = FALSE; never an error.
C1_EmailVerifiedNormalized ==
    \A c \in Calls :
        (Done(c) /\ Got200Json(c)) =>
            /\ res[c].body.email_verified \in Truthy =>
                   (result[c].has /\ result[c].claims.EmailVerified = TRUE)
            /\ res[c].body.email_verified \in Falsy =>
                   (result[c].has /\ result[c].claims.EmailVerified = FALSE)

\* C2 as stated: after a 200 answer with a decodable body the returned Claims
\* has a non-empty Subject and a non-empty Issuer, also when sub is omitted.
C2_SubjectIssuerNonEmpty ==
    \A c \in Calls :
        (Done(c) /\ Got200Decodable(c)) =>
            /\ result[c].has
            /\ result[c].claims.Subject # ""
            /\ result[c].claims.Issuer # ""

\* C2 amended: after a 200 answer with a decodable body the returned Claims
\* has the non-empty LinkedIn issuer, and its Subject is the sub member of the
\* body: empty when sub is omitted, never a substitute.
C2_IssuerSetSubjectFromSub ==
    \A c \in Calls :
        (Done(c) /\ Got200Decodable(c)) =>
            /\ result[c].has
            /\ result[c].claims.Issuer = IssuerUrl
            /\ result[c].claims.Issuer # ""
            /\ result[c].claims.Subject = TextOf(res[c].body.sub)

C2_Witness ==
    \E c \in Calls :
        /\ Done(c) /\ Got200Decodable(c)
        /\ res[c].body.sub = Absent
        /\ result[c].has /\ result[c].claims.Subject = ""

\* texts that come from the upstream or from the transport underneath fetch
UpstreamTexts == TransportTexts \cup {GarbageText}

Fragments(q) == {q[i] : i \in 1..Len(q)}

\* C3: an error Claims returns is a generic internal-server error whose
\* message and reason carry no text of the upstream or of the fetch error.
C3_NoUpstreamTextInError ==
    \A c \in Calls :
        (Done(c) /\ ~result[c].has) =>
            /\ result[c].err.k = "internal"
            /\ Fragments(result[c].err.msg) \cap UpstreamTexts = {}
            /\ Fragments(result[c].err.reason) \cap UpstreamTexts = {}

\* every GET of the call was answered 500
Only500(c) == seen[c] # {} /\ \A r \in seen[c] : r.k = "http" /\ r.status = 500

\* C4: when every attempt is answered HTTP 500, Claims returns an internal
\* error and no Claims, after at least two and at most RetryMax + 1 GETs.
C4_Http500RetriedThenError ==
    \A c \in Calls :
        (Done(c) /\ Only500(c)) =>
            /\ ~result[c].has
            /\ result[c].err.k = "internal"
            /\ attempts[c] >= 2
            /\ attempts[c] <= RetryMax + 1

C4_Witness ==
    \E c \in Calls : Done(c) /\ Only500(c) /\ ~result[c].has /\ attempts[c] = RetryMax + 1

\* the only answer the call got is a 200 whose body does not decode
OnlyUndecodable200(c) ==
    /\ seen[c] = {res[c]}
    /\ res[c].k = "http" /\ res[c].status = 200
    /\ DecodeError(res[c].body) # NoErr

\* C5: a 200 answer whose body does not decode makes Claims return an error
\* and no Claims after exactly one GET: once Decode has run no GET follows.
C5_DecodeFailureNotRetried ==
    \A c \in Calls :
        /\ (pc[c] \in {"map", "done"} /\ OnlyUndecodable200(c)) =>
               /\ fetchErr[c] # NoErr
               /\ attempts[c] = 1
               /\ decodes[c] = 1
        /\ (Done(c) /\ OnlyUndecodable200(c)) =>
               /\ ~result[c].has
               /\ result[c].err # NoErr
        /\ decodes[c] >= 1 => pc[c] \in {"map", "done"}

C5_Witness ==
    \E c \in Calls :
        Done(c) /\ OnlyUndecodable200(c) /\ res[c].body.kind = "garbage" /\ ~result[c].has

NonSuccess(r) == r.k = "http" /\ ~(r.status >= 200 /\ r.status <= 299)

\* C6: when the final response is not 2xx, fetch returns an error, Decode is
\* never called and the destination keeps its zero value; Decode runs only
\* on a response that passed the status check.
C6_NonSuccessStatusNeverDecoded ==
    \A c \in Calls :
        /\ (pc[c] \in {"map", "done"} /\ NonSuccess(res[c])) =>
               /\ fetchErr[c] # NoErr
               /\ decodes[c] = 0
               /\ slot[c] = ZeroProfile
        /\ decodes[c] >= 1 => (res[c].k = "http" /\ ~NonSuccess(res[c]))

C6_Witness ==
    \E c \in Calls :
        /\ pc[c] = "map" /\ res[c] = HttpResponse(404, NativeScenarioBody)
        /\ fetchErr[c] # NoErr /\ decodes[c] = 0

\* C7: with the redirect base URL missing, OAuth2 returns an error and Claims
\* fails with an internal error before it builds the client or sends a GET.
C7_MissingRedirectBaseFailsFast ==
    \A c \in Calls :
        (Done(c) /\ redirBase[c] = "") =>
            /\ OAuth2(provider, redirBase[c]).err # NoErr
            /\ ~result[c].has
            /\ result[c].err.k = "internal"
            /\ ~client[c].built
            /\ attempts[c] = 0

PresentLocales == {l \in LocaleEncodings : l.present}

SameButLocale(a, b) ==
    /\ a.Subject = b.Subject /\ a.Issuer = b.Issuer /\ a.Email = b.Email
    /\ a.EmailVerified = b.EmailVerified /\ a.GivenName = b.GivenName
    /\ a.LastName = b.LastName /\ a.Picture = b.Picture

\* C8: a 200 profile without locale yields Claims with Locale = "" and every
\* other field as for the same profile with a locale; with a locale, Locale
\* is its language.
C8_AbsentLocaleYieldsEmptyLocale ==
    \A c \in Calls :
        (Done(c) /\ Got200Json(c)) =>
            /\ result[c].has
            /\ ~res[c].body.locale.present =>
                   /\ result[c].claims.Locale = ""
                   /\ \A l \in PresentLocales :
                          SameButLocale(result[c].claims,
                              ClaimsOf(DecodeInto([res[c].body EXCEPT !.locale = l], ZeroProfile)))
            /\ res[c].body.locale.present =>
                   result[c].claims.Locale = TextOf(res[c].body.locale.language)

\* what a call returns when it runs alone and its last GET ends as r
Alone(r) ==
    IF Retryable(r)
    THEN ClaimsReturn(GiveUpError(r), ZeroProfile)
    ELSE ClaimsReturn(FetchResponse(r, ZeroProfile).err, FetchResponse(r, ZeroProfile).dst)

\* C9: under any interleaving of calls on one provider no call changes the
\* provider, and each call returns what it would return alone for its own
\* token and its own upstream answer.
C9_CallsIsolated ==
    /\ [](\A c \in Calls : Done(c) /\ client[c].built =>
              /\ result[c] = Alone(res[c])
              /\ client[c].bearer = Token(c))
    /\ [][provider' = provider]_vars

C9_Witness ==
    \E c, d \in Calls :
        /\ c # d /\ Done(c) /\ Done(d)
        /\ result[c].has /\ result[d].has
        /\ result[c].claims.Subject # result[d].claims.Subject

\* C10: the spans of fetch and of Claims are ended exactly once on every
\* exit path, never before the operation returns, and a span has recorded
\* the very error its operation returned.
C10_SpansEndedOnceWithError ==
    \A c \in Calls :
        /\ spanFetch[c].ended <= spanFetch[c].started
        /\ spanClaims[c].ended <= spanClaims[c].started
        /\ pc[c] \in {"do", "check"} =>
               (spanFetch[c].started = 1 /\ spanFetch[c].ended = 0 /\ spanClaims[c].ended = 0)
        /\ (pc[c] \in {"map", "done"} /\ spanFetch[c].started = 1) =>
               (spanFetch[c].ended = 1 /\ spanFetch[c].recorded = fetchErr[c])
        /\ pc[c] = "map" => (spanClaims[c].started = 1 /\ spanClaims[c].ended = 0)
        /\ Done(c) =>
               /\ spanClaims[c].started = 1
               /\ spanClaims[c].ended = 1
               /\ spanClaims[c].recorded = result[c].err

C10_Witness ==
    \E c \in Calls :
        /\ Done(c)
        /\ fetchErr[c].k \in {"json.SyntaxError", "json.UnmarshalTypeError"}
        /\ spanFetch[c].ended = 1 /\ spanFetch[c].recorded = fetchErr[c]
        /\ spanClaims[c].ended = 1 /\ spanClaims[c].recorded = result[c].err

====
